---- MODULE Spec2Model ----
(***************************************************************************)
(* Model of ComplexComponent (complex_component/complex_component.py): the *)
(* epoch synchronisation and input aggregation of one simulation           *)
(* component.                                                              *)
(*                                                                         *)
(* Numbers.  Every float the component stores has passed round(x, 3), so   *)
(* the model keeps floats as integers counting thousandths (3.0 is 3000,   *)
(* 0.035 is 35).  The product of two such numbers counts millionths and    *)
(* round(., 3) brings it back to thousandths.                              *)
(***************************************************************************)
EXTENDS Integers, Sequences, FiniteSets

\* ------------------------------------------------------------- bounds
\* Epoch numbers run 1..MaxEpoch; 0 is the epoch number before the first
\* epoch message.
MaxEpoch == 2
\* Calls made on the component in one run besides the epoch messages: peer
\* inputs delivered and clear_epoch_variables called on its own.
MaxInputs == 4

\* One thousandth is the unit of every stored float.
Milli == 1000

\* The component names that may send a ComplexMessage (source_process_id).
Peers == {"P1", "P2", "P3"}
\* The values of self._input_components that are explored.  __init__ takes an
\* argument input_components and does not store it; the attribute is read
\* (lines 50, 91, 107) and assigned nowhere in the source, so a component
\* has it from elsewhere: it is the peer set the component is configured
\* with.
PeerSets == {{}, {"P1"}, {"P1", "P2"}}
\* The values of the constructor argument complex_value that are explored,
\* in thousandths (2.0 and 1.234: no product with an epoch number is a
\* rounding tie).
BaseValues == {2000, 1234}
\* The values of the constructor argument complex_string that are explored.
ModeFlags == {"Correct", ""}
\* The ComplexValue of an incoming message, in thousandths (3.0 and -1.5).
Values == {3000, -1500}

VARIABLES
    constructed,                \* whether __init__ returned: FALSE when it raised the
                                \* AttributeError of line 50 and there is no component
    complex_value,              \* self._complex_value (constructor argument)
    complex_string,             \* self._complex_string (constructor argument)
    input_components,           \* self._input_components (not assigned by the source)
    has_output_delay,           \* whether self._output_delay exists (not assigned by the
                                \* source)
    latest_epoch,               \* self._latest_epoch
    current_number_sum,         \* self._current_number_sum
    current_input_components,   \* self._current_input_components
    triggering_message_ids,     \* self._triggering_message_ids
    sleeping,                   \* process_epoch calls suspended in asyncio.sleep:
                                \* the epoch each one was started for, oldest first
    emits,                      \* the calls of _send_complex_message, in the order they
                                \* were made: what each one read, how far it has come
                                \* and how it ended
    last,                       \* history: the event handled last
    accepted,                   \* history: per component, its messages taken in since the
                                \* last epoch start
    reference,                  \* history: round(reference * value, 3) over the values
                                \* taken in since the last epoch start, from 0
    completed,                  \* history: the epochs whose input became complete
    snapshots,                  \* history: for each suspended process_epoch, the fields as
                                \* they were when it computed the output value
    delivered,                  \* history: the input components that have had a message
                                \* delivered since the last epoch start
    expected_ids,               \* history: the id of the first message of each input
                                \* component since the last epoch start, in arrival order
    next_id,                    \* the id of the next input: the inputs delivered so far, plus 1
    clear_calls                 \* the calls of clear_epoch_variables made on its own so far

\* What __init__ stores of its arguments.
config == <<complex_value, complex_string>>
\* What the component has without the source assigning it.
supplied == <<constructed, input_components, has_output_delay>>
fields == <<latest_epoch, current_number_sum, current_input_components,
            triggering_message_ids>>
history == <<last, accepted, reference, completed, snapshots, delivered,
             expected_ids, next_id, clear_calls>>
history_but_last == <<accepted, reference, completed, snapshots, delivered,
                      expected_ids, next_id, clear_calls>>
vars == <<config, supplied, fields, sleeping, emits, history>>

\* ------------------------------------------------------------- arithmetic
\* How the two roundings of a handler go when the number to round lies half
\* way between two thousandths: fold for line 116, output for lines 79 and
\* 81.  TRUE is towards the larger neighbour.
Ties == [fold : BOOLEAN, output : BOOLEAN]

\* The ties of a reading that does no rounding, or whose rounding has no tie.
NoTies == [fold |-> FALSE, output |-> FALSE]

\* round(n / d, 0) for the float that n / d stands for (d > 0).  Off a tie it
\* is the nearest integer.  On a tie (2 * r = d) the float that the code
\* rounds is not the decimal number but the binary number next to it, which
\* lies above or below the tie (round(0.0025, 3) is 0.003 and
\* round(0.9255, 3) is 0.925); tie_up tells on which side it lies.
RoundDiv(n, d, tie_up) ==
    LET q == n \div d
        r == n % d
    IN  IF 2 * r < d THEN q
        ELSE IF 2 * r > d THEN q + 1
        ELSE IF tie_up THEN q + 1 ELSE q

\* round(a * b, 3) for a and b in thousandths, the result in thousandths.
RoundedProduct(a, b, tie_up) == RoundDiv(a * b, Milli, tie_up)

\* round(base * epoch / 1000, 3) for base in thousandths and an integer epoch.
FallbackValue(base, epoch, tie_up) == RoundDiv(base * epoch, Milli, tie_up)

\* ------------------------------------------------------------- the component
\* The mutable fields of the component as one record, so that a handler is a
\* function from the state before it to the state after it; ties tells how
\* the roundings of the handler go on a tie and raised whether an exception
\* has left the handler.
Component(ties) ==
    [ latest_epoch |-> latest_epoch,
      current_number_sum |-> current_number_sum,
      current_input_components |-> current_input_components,
      triggering_message_ids |-> triggering_message_ids,
      sleeping |-> sleeping,
      ties |-> ties,
      raised |-> FALSE ]

\* The fields as they are, for a reading of them.
Self == Component(NoTies)

\* The value __init__ and clear_epoch_variables give _current_number_sum.
NeutralSum == 0

\* A variant of clear_epoch_variables that resets the sum and keeps the
\* components that have reported.
clear_epoch_variables_keeping_components(s) ==
    [s EXCEPT !.current_number_sum = NeutralSum]

\* A variant of clear_epoch_variables that also moves on to the next epoch.
clear_epoch_variables_advancing(s) ==
    [s EXCEPT !.current_number_sum = NeutralSum,
              !.current_input_components = {},
              !.latest_epoch = @ + 1]

clear_epoch_variables(s) ==
    [s EXCEPT !.current_number_sum = NeutralSum,
              !.current_input_components = {}]

\* A variant of all_messages_received_for_epoch that is content when no
\* component outside the input components has reported.
all_messages_received_for_epoch_subset(s) ==
    s.current_input_components \subseteq input_components

all_messages_received_for_epoch(s) ==
    input_components = s.current_input_components

\* A variant of OutputValue without the branch for a component that has no
\* input components.
OutputValue_no_fallback(s) ==
    IF complex_string = "Correct"
    THEN RoundedProduct(s.current_number_sum, complex_value, s.ties.output)
    ELSE s.current_number_sum

\* The value process_epoch stores in _current_number_sum for the output message.
OutputValue(s) ==
    IF s.current_input_components # {}
    THEN IF complex_string = "Correct"
         THEN RoundedProduct(s.current_number_sum, complex_value, s.ties.output)
         ELSE s.current_number_sum
    ELSE FallbackValue(complex_value, s.latest_epoch, s.ties.output)

\* A variant of process_epoch that clears the epoch variables as soon as the
\* output value is computed.
process_epoch_clearing(s) ==
    IF has_output_delay
    THEN [s EXCEPT !.current_number_sum = OutputValue(s),
                   !.current_input_components = {},
                   !.sleeping = Append(@, s.latest_epoch)]
    ELSE [s EXCEPT !.current_number_sum = OutputValue(s),
                   !.current_input_components = {},
                   !.raised = TRUE]

\* process_epoch up to line 84: the output value is stored (lines 77-81) and
\* self._output_delay is read.  When the attribute exists the call suspends in
\* asyncio.sleep.  When it does not, reading it raises AttributeError: the
\* call neither sleeps nor reaches _send_complex_message, and the exception
\* leaves process_epoch, start_epoch and the handler that called it.
process_epoch(s) ==
    IF has_output_delay
    THEN [s EXCEPT !.current_number_sum = OutputValue(s),
                   !.sleeping = Append(@, s.latest_epoch)]
    ELSE [s EXCEPT !.current_number_sum = OutputValue(s),
                   !.raised = TRUE]

\* AbstractSimulationComponent.start_epoch: the epoch is processed when all
\* the expected input has arrived.
start_epoch(s) ==
    IF all_messages_received_for_epoch(s) THEN process_epoch(s) ELSE s

\* A variant of FoldInput that adds the value to the sum.
FoldInput_additive(s, m) ==
    [s EXCEPT !.current_input_components = @ \cup {m.source_process_id},
              !.current_number_sum = @ + m.complex_value,
              !.triggering_message_ids = Append(@, m.message_id)]

\* A variant of FoldInput that puts the message id in front of the others.
FoldInput_prepending_id(s, m) ==
    [s EXCEPT !.current_input_components = @ \cup {m.source_process_id},
              !.current_number_sum = RoundedProduct(@, m.complex_value, s.ties.fold),
              !.triggering_message_ids = <<m.message_id>> \o @]

\* The else branch of general_message_handler: the message is taken in.
FoldInput(s, m) ==
    [s EXCEPT !.current_input_components = @ \cup {m.source_process_id},
              !.current_number_sum = RoundedProduct(@, m.complex_value, s.ties.fold),
              !.triggering_message_ids = Append(@, m.message_id)]

\* A variant of general_message_handler that takes in every message of an
\* input component, also a second one.
general_message_handler_no_duplicate_check(s, m) ==
    IF m.source_process_id \notin input_components THEN s
    ELSE start_epoch(FoldInput(s, m))

\* A variant of general_message_handler that takes in the first message of
\* any component, registered or not.
general_message_handler_no_registration_check(s, m) ==
    IF m.source_process_id \in s.current_input_components THEN s
    ELSE start_epoch(FoldInput(s, m))

\* A variant of general_message_handler that decides whether to process the
\* epoch on the state as it was before the message was taken in.
general_message_handler_stale_check(s, m) ==
    IF m.source_process_id \notin input_components THEN s
    ELSE IF m.source_process_id \in s.current_input_components THEN s
    ELSE IF all_messages_received_for_epoch(s)
         THEN process_epoch(FoldInput(s, m))
         ELSE FoldInput(s, m)

general_message_handler(s, m) ==
    IF m.source_process_id \notin input_components THEN s
    ELSE IF m.source_process_id \in s.current_input_components THEN s
    ELSE start_epoch(FoldInput(s, m))

\* The handling of an epoch message: the epoch-scoped fields are cleared, the
\* epoch becomes the current one and its completion is evaluated.
epoch_message_handler(s, epoch) ==
    start_epoch([clear_epoch_variables(s) EXCEPT
                    !.latest_epoch = epoch,
                    !.triggering_message_ids = <<>>])

\* ------------------------------------------------------------- events
\* The ComplexMessages that can arrive while epoch e is the current one: from
\* any component, tagged with the epoch before, the current or the next one.
Messages(e, id) ==
    [ source_process_id : Peers,
      epoch_number : {e - 1, e, e + 1},
      complex_value : Values,
      message_id : {id} ]

NoEvent == [kind |-> "none"]

\* What is kept of a message for the record of the last event: all but its
\* value.
Header(m) ==
    [ source_process_id |-> m.source_process_id,
      epoch_number |-> m.epoch_number,
      message_id |-> m.message_id ]

\* What a handler leaves, the fields and whether it raised: how its roundings
\* went on a tie is no part of it.
Left(s) == [s EXCEPT !.ties = NoTies]

Store(s) ==
    /\ latest_epoch' = s.latest_epoch
    /\ current_number_sum' = s.current_number_sum
    /\ current_input_components' = s.current_input_components
    /\ triggering_message_ids' = s.triggering_message_ids
    /\ sleeping' = s.sleeping

\* The epochs whose input has been complete, after a handler left state s.
Completed(s) ==
    IF all_messages_received_for_epoch(s)
    THEN completed \cup {s.latest_epoch}
    ELSE completed

\* The fields a process_epoch call leaves when it suspends.
Snapshot(s) ==
    [ EpochNumber |-> s.latest_epoch,
      TriggeringMessageIds |-> s.triggering_message_ids,
      ComplexValue |-> s.current_number_sum,
      reported |-> s.current_input_components ]

\* The snapshots of the suspended process_epoch calls, after a handler left
\* state s.
Snapshots(s) ==
    IF Len(s.sleeping) > Len(sleeping)
    THEN Append(snapshots, Snapshot(s))
    ELSE snapshots

\* How building the message (get_message, bytes) or sending it (send_message)
\* can end: without an exception, with one of the exceptions the except
\* clause of line 144 names (ValueError, TypeError, MessageError), or with
\* another exception.
Failures == {"none", "caught", "other"}

\* The arguments _send_complex_message gives get_message: the fields as they
\* are when it is called.
ComplexMessageOf(s) ==
    [ EpochNumber |-> s.latest_epoch,
      TriggeringMessageIds |-> s.triggering_message_ids,
      ComplexValue |-> s.current_number_sum ]

\* A variant of send_complex_message that lets every exception pass instead
\* of reporting it.
send_complex_message_reraising(message, failure, notified) ==
    [ EpochNumber |-> message.EpochNumber,
      TriggeringMessageIds |-> message.TriggeringMessageIds,
      ComplexValue |-> message.ComplexValue,
      sent |-> failure = "none",
      error_messages |-> 0,
      raised |-> failure # "none" ]

\* _send_complex_message for the message it builds, when building and sending
\* it end with failure: the message is sent when there is none; an exception
\* the except clause names is caught and send_error_message is called, which
\* sends one error message and returns (notified) or raises itself, line 147
\* being outside the try; any other exception leaves the method.
send_complex_message(message, failure, notified) ==
    [ EpochNumber |-> message.EpochNumber,
      TriggeringMessageIds |-> message.TriggeringMessageIds,
      ComplexValue |-> message.ComplexValue,
      sent |-> failure = "none",
      error_messages |-> IF failure = "caught" /\ notified THEN 1 ELSE 0,
      raised |-> failure = "other" \/ (failure = "caught" /\ ~notified) ]

\* A variant of process_epoch_return that reports whether the output message
\* was sent.
process_epoch_return_sent(outcome) ==
    IF outcome.raised THEN "exception"
    ELSE IF outcome.sent THEN "True" ELSE "False"

\* What process_epoch returns after _send_complex_message: True, unless an
\* exception passed through it.
process_epoch_return(outcome) ==
    IF outcome.raised THEN "exception" ELSE "True"

\* What __init__ assigns (lines 37-40).
ConstructorFields ==
    /\ complex_value \in BaseValues
    /\ complex_string \in ModeFlags
    /\ current_number_sum = NeutralSum
    /\ current_input_components = {}

\* What the component has from outside the source when __init__ reaches line
\* 50.  Either self._input_components exists, holding the configured peer
\* set, and the constructor returns; or it does not, line 50 raises
\* AttributeError and no component comes to be.  A component that exists has
\* self._output_delay or has not: the source assigns neither attribute.
SuppliedFields ==
    /\ \/ /\ constructed = TRUE
          /\ input_components \in PeerSets
          /\ has_output_delay \in BOOLEAN
       \/ /\ constructed = FALSE
          /\ input_components = {}
          /\ has_output_delay = FALSE
    /\ latest_epoch = 0
    /\ triggering_message_ids = <<>>

Init ==
    /\ ConstructorFields
    /\ SuppliedFields
    /\ sleeping = <<>>
    /\ emits = <<>>
    /\ last = NoEvent
    /\ accepted = [p \in Peers |-> 0]
    /\ reference = 0
    /\ completed = {}
    /\ snapshots = <<>>
    /\ delivered = {}
    /\ expected_ids = <<>>
    /\ next_id = 1
    /\ clear_calls = 0

\* The epoch message of the next epoch is handled.
HandleEpochMessage ==
    /\ constructed
    /\ latest_epoch < MaxEpoch
    /\ \E s \in {Left(epoch_message_handler(Component(ties), latest_epoch + 1)) :
                    ties \in Ties} :
              /\ Store(s)
              /\ last' = [kind |-> "epoch", epoch |-> s.latest_epoch,
                          scheduled |-> Len(s.sleeping) > Len(sleeping),
                          raised |-> s.raised]
              /\ completed' = Completed(s)
              /\ snapshots' = Snapshots(s)
    /\ accepted' = [p \in Peers |-> 0]
    /\ reference' = 0
    /\ delivered' = {}
    /\ expected_ids' = <<>>
    /\ UNCHANGED <<config, supplied, emits, next_id, clear_calls>>

\* The calls of _send_complex_message that have not ended.
InProgress == {i \in 1..Len(emits) : emits[i].returned = "pending"}

\* No process_epoch call is under way.
Idle == sleeping = <<>> /\ InProgress = {}

\* The simulation manager opens the next epoch.  It does so only when the
\* component is not in the middle of processing an epoch (the component
\* reports ready after process_epoch has returned).
EpochStart ==
    /\ Idle
    /\ HandleEpochMessage

\* A ComplexMessage is delivered to general_message_handler.
PeerInput ==
    /\ constructed
    /\ next_id + clear_calls <= MaxInputs
    /\ \E r \in {[message |-> Header(msg),
                  left |-> Left(general_message_handler(Component(ties), msg)),
                  fold |-> RoundDiv(reference * msg.complex_value, Milli, ties.fold)] :
                    msg \in Messages(latest_epoch, next_id), ties \in Ties} :
          LET s == r.left
              m == r.message
              taken == s.triggering_message_ids # triggering_message_ids
          IN  /\ Store(s)
              /\ last' = [kind |-> "input", message |-> m, taken |-> taken,
                          scheduled |-> Len(s.sleeping) > Len(sleeping),
                          raised |-> s.raised]
              /\ accepted' = IF taken
                             THEN [accepted EXCEPT ![m.source_process_id] = @ + 1]
                             ELSE accepted
              /\ reference' = IF taken THEN r.fold ELSE reference
              /\ completed' = Completed(s)
              /\ snapshots' = Snapshots(s)
              /\ delivered' = IF m.source_process_id \in input_components
                              THEN delivered \cup {m.source_process_id}
                              ELSE delivered
              /\ expected_ids' = IF /\ m.source_process_id \in input_components
                                    /\ m.source_process_id \notin delivered
                                 THEN Append(expected_ids, m.message_id)
                                 ELSE expected_ids
    /\ next_id' = next_id + 1
    /\ UNCHANGED <<config, supplied, emits, clear_calls>>

\* Where a call of _send_complex_message stands once building or sending has
\* ended with the given failure: gone with the exception, suspended in
\* send_error_message, or through.
StageAfter(failure, through) ==
    IF failure = "other" THEN "ended"
    ELSE IF failure = "caught" THEN "reporting"
    ELSE through

\* How far the error message of a call has come when the call is at a stage.
ErrorReportAt(stage) == IF stage = "reporting" THEN "pending" ELSE "none"

\* The output delay of the oldest suspended process_epoch is over and it calls
\* _send_complex_message, which builds the message from the fields as they are
\* now (lines 132-141).  Building it can fail; when it does not, the call
\* suspends in send_message.
SendOutput ==
    /\ sleeping # <<>>
    /\ \E failure \in Failures :
          LET outcome == send_complex_message(ComplexMessageOf(Self), failure, TRUE)
              stage == IF outcome.raised THEN "ended"
                       ELSE StageAfter(failure, "sending")
          IN  emits' = Append(emits,
                      [ scheduled_for |-> Head(sleeping),
                        EpochNumber |-> outcome.EpochNumber,
                        TriggeringMessageIds |-> outcome.TriggeringMessageIds,
                        ComplexValue |-> outcome.ComplexValue,
                        reported |-> current_input_components,
                        reference |-> reference,
                        computed |-> Head(snapshots),
                        expected_ids |-> expected_ids,
                        failure |-> failure,
                        stage |-> stage,
                        sent |-> FALSE,
                        error_report |-> ErrorReportAt(stage),
                        error_messages |-> 0,
                        returned |-> IF stage = "ended"
                                     THEN process_epoch_return(outcome)
                                     ELSE "pending" ])
    /\ sleeping' = Tail(sleeping)
    /\ snapshots' = Tail(snapshots)
    /\ last' = [kind |-> "send"]
    /\ UNCHANGED <<config, supplied, fields, accepted, reference, completed,
                   delivered, expected_ids, next_id, clear_calls>>

\* send_message (line 139) ends for a call suspended in it: the message was
\* sent and process_epoch returns, or send_message raised.
SendMessageDone ==
    /\ \E i \in 1..Len(emits), failure \in Failures :
          /\ emits[i].stage = "sending"
          /\ LET outcome == send_complex_message(emits[i], failure, TRUE)
                 stage == IF outcome.raised THEN "ended"
                          ELSE StageAfter(failure, "ended")
             IN  emits' = [emits EXCEPT
                              ![i].failure = failure,
                              ![i].stage = stage,
                              ![i].sent = outcome.sent,
                              ![i].error_report = ErrorReportAt(stage),
                              ![i].returned = IF stage = "ended"
                                              THEN process_epoch_return(outcome)
                                              ELSE "pending"]
    /\ last' = [kind |-> "sent"]
    /\ UNCHANGED <<config, supplied, fields, sleeping, history_but_last>>

\* send_error_message (line 147) ends for a call suspended in it: the error
\* message is out and process_epoch returns, or send_error_message raised
\* and its exception leaves _send_complex_message and process_epoch.
ErrorMessageSent ==
    /\ \E i \in 1..Len(emits), notified \in BOOLEAN :
          /\ emits[i].stage = "reporting"
          /\ LET outcome == send_complex_message(emits[i], "caught", notified)
             IN  emits' = [emits EXCEPT
                              ![i].stage = "ended",
                              ![i].error_report = IF notified THEN "sent" ELSE "raised",
                              ![i].error_messages = outcome.error_messages,
                              ![i].returned = process_epoch_return(outcome)]
    /\ last' = [kind |-> "reported"]
    /\ UNCHANGED <<config, supplied, fields, sleeping, history_but_last>>

Next == EpochStart \/ PeerInput \/ SendOutput \/ SendMessageDone \/ ErrorMessageSent

Spec == Init /\ [][Next]_vars

\* The same component when an output delay that has begun is bound to end:
\* the sleep of process_epoch is finite.
FairSpec == Spec /\ WF_vars(SendOutput)

\* An epoch message that arrives while a process_epoch call is still in its
\* output delay.
EpochStartDuringDelay ==
    /\ sleeping # <<>>
    /\ HandleEpochMessage

NextEarlyStart == Next \/ EpochStartDuringDelay

\* The component under a manager that does not wait for the output delay of
\* an epoch to end before it starts the next one.
SpecEarlyStart == Init /\ [][NextEarlyStart]_vars

\* clear_epoch_variables called on its own, between any two handlers; again
\* tells whether the event before it was such a call too.
ClearEpochVariables ==
    /\ constructed
    /\ next_id + clear_calls <= MaxInputs
    /\ Store(clear_epoch_variables(Self))
    /\ last' = [kind |-> "clear", again |-> last.kind = "clear"]
    /\ clear_calls' = clear_calls + 1
    /\ UNCHANGED <<config, supplied, emits, accepted, reference, completed,
                   snapshots, delivered, expected_ids, next_id>>

NextClear == Next \/ ClearEpochVariables

\* The component, with clear_epoch_variables also called on its own, in any
\* state the handlers leave, and the handlers going on after it.
SpecClear == Init /\ [][NextClear]_vars

\* ------------------------------------------------------------- properties
\* The values round(n / 1000, 3) can have: one off a tie, two on a tie.
Rounded(n) == {RoundDiv(n, Milli, up) : up \in BOOLEAN}

\* The values process_epoch can store for the output when the aggregate is x.
OutputValues(x) ==
    {OutputValue([Component(ties) EXCEPT !.current_number_sum = x]) : ties \in Ties}

AllReceived == all_messages_received_for_epoch(Self)

\* The last event was the delivery of a ComplexMessage.
InputHandled == last.kind = "input"

\* The calls of _send_complex_message made with epoch number e.
EmitsOf(e) == {i \in 1..Len(emits) : emits[i].EpochNumber = e}

\* The process_epoch calls started for epoch e that are still in their delay.
SleepingFor(e) == {i \in 1..Len(sleeping) : sleeping[i] = e}

\* C1: with a non-empty set of input components, and whatever the order of
\* arrival, all_messages_received_for_epoch holds exactly when every input
\* component has had exactly one message taken in since the epoch started;
\* no component ever has more than one taken in.
C1_CompleteIffEachPeerOnce ==
    input_components # {} =>
        /\ AllReceived <=> \A p \in input_components : accepted[p] = 1
        /\ \A p \in Peers : accepted[p] <= 1
        /\ current_input_components = {p \in Peers : accepted[p] = 1}

\* Both input components have reported, P2 before P1.
C1_Witness ==
    /\ input_components = {"P1", "P2"}
    /\ AllReceived
    /\ InputHandled /\ last.taken
    /\ last.message.source_process_id = "P1"

\* C2: a ComplexMessage whose epoch number differs from the current epoch
\* changes neither the aggregate nor the set of components that have reported.
C2_OtherEpochDiscarded ==
    [][ (last'.kind = "input" /\ last'.message.epoch_number # latest_epoch)
            => UNCHANGED <<current_number_sum, current_input_components>> ]_vars

\* The epoch numbers under which completion is evaluated: the epochs an epoch
\* message has started and, with input components, also number 0, the time
\* before the first epoch message, in which a message that is taken in has
\* completion evaluated like in any epoch.
Rounds ==
    IF input_components = {} THEN 1..latest_epoch ELSE 0..latest_epoch

\* C3: _send_complex_message is called exactly once for every epoch whose
\* input became complete and never for another epoch: no epoch number has two
\* calls, a completed epoch has its call made or pending, and made once the
\* next epoch has started; each call is made after the output value was
\* computed for that epoch and before the epoch variables are cleared.
\* It fails: a component whose self._output_delay was never assigned
\* completes an epoch, process_epoch raises at line 84 and no call is made.
C3_EmitOncePerCompletedEpoch ==
    /\ \A e \in Rounds :
          /\ Cardinality(EmitsOf(e)) <= 1
          /\ Cardinality(EmitsOf(e)) + Cardinality(SleepingFor(e))
                = (IF e \in completed THEN 1 ELSE 0)
          /\ (e \in completed /\ e < latest_epoch) => Cardinality(EmitsOf(e)) = 1
    /\ \A i \in 1..Len(emits) :
          /\ emits[i].EpochNumber = emits[i].scheduled_for
          /\ emits[i].EpochNumber \in Rounds
          /\ emits[i].reported = input_components

\* C4: a further message of a component that has already reported in this
\* epoch changes neither the aggregate, nor the set of reported components,
\* nor the triggering message ids, and starts no processing of the epoch; the
\* aggregate is the fold of the first message of each component (it holds the
\* output value made of that fold once the epoch has been processed).
C4_DuplicateIgnored ==
    /\ [](IF AllReceived
          THEN current_number_sum \in OutputValues(reference)
          ELSE current_number_sum = reference)
    /\ [][ (last'.kind = "input"
            /\ last'.message.source_process_id \in current_input_components)
            => UNCHANGED <<current_number_sum, current_input_components,
                           triggering_message_ids, sleeping>> ]_vars

\* A second message of P1 was delivered while P2 was still missing.
C4_Witness ==
    /\ input_components = {"P1", "P2"}
    /\ current_input_components = {"P1"}
    /\ InputHandled /\ ~last.taken
    /\ last.message.source_process_id = "P1"
    /\ last.message.epoch_number = latest_epoch

\* C5: the step that makes the reported components equal to the input
\* components is the step in which process_epoch runs (it suspends in its
\* output delay or, without one, raises); the output is sent with every input
\* component reported; and once the output of an epoch has been sent, nothing
\* is taken in until the next epoch starts.
C5_EmitAfterEveryFold ==
    /\ [](\A i \in 1..Len(emits) : emits[i].reported = input_components)
    /\ [][ (~AllReceived /\ AllReceived')
            => IF has_output_delay
               THEN Len(sleeping') = Len(sleeping) + 1
               ELSE last'.raised ]_vars
    /\ [][ (EmitsOf(latest_epoch) # {} /\ latest_epoch' = latest_epoch)
            => UNCHANGED <<current_number_sum, current_input_components,
                           triggering_message_ids>> ]_vars

\* The output of the current epoch has been sent and a message of an input
\* component arrived after it.
C5_Witness ==
    /\ input_components = {"P1", "P2"}
    /\ EmitsOf(latest_epoch) # {}
    /\ InputHandled
    /\ last.message.source_process_id \in input_components

\* C6: a ComplexMessage of a component that is not an input component changes
\* no field of the component and starts no processing of the epoch.
C6_UnknownPeerIgnored ==
    [][ (last'.kind = "input"
         /\ last'.message.source_process_id \notin input_components)
            => UNCHANGED <<fields, sleeping, emits>> ]_vars

\* A message of P3 was delivered while the component was waiting for P2.
C6_Witness ==
    /\ InputHandled
    /\ last.message.source_process_id = "P3"
    /\ current_input_components = {"P1"}
    /\ input_components = {"P1", "P2"}

\* C7: the components that have reported are input components.
C7_ReportedSubsetOfPeers == current_input_components \subseteq input_components

\* In the second epoch, with three or more messages delivered so far, one of
\* the two input components has reported.
C7_Witness ==
    /\ latest_epoch = 2
    /\ input_components = {"P1", "P2"}
    /\ current_input_components = {"P2"}
    /\ next_id >= 4

\* C8: a component without input components processes every epoch in the
\* step that starts it, takes in no message, and computes and sends
\* round(base * epoch / 1000, 3) for it whatever the mode flag; with its
\* output delay it makes one call of _send_complex_message for every epoch.
C8_EmptyPeerSetFallback ==
    input_components = {} =>
        /\ \A e \in 1..latest_epoch :
              Cardinality(EmitsOf(e)) + Cardinality(SleepingFor(e))
                 = (IF has_output_delay THEN 1 ELSE 0)
        /\ last.kind = "epoch" =>
              IF has_output_delay
              THEN last.scheduled /\ sleeping = <<latest_epoch>>
              ELSE last.raised
        /\ latest_epoch >= 1 =>
              current_number_sum \in Rounded(complex_value * latest_epoch)
        /\ \A p \in Peers : accepted[p] = 0
        /\ \A i \in 1..Len(emits) :
              emits[i].ComplexValue
                 \in Rounded(complex_value * emits[i].EpochNumber)

\* Base value 1.234 and no input components: 0.001 was sent for epoch 1
\* and 0.002 for epoch 2, with the mode flag not "Correct".
C8_Witness ==
    /\ input_components = {}
    /\ complex_value = 1234
    /\ complex_string # "Correct"
    /\ Len(emits) = 2
    /\ emits[1].ComplexValue = 1
    /\ emits[2].ComplexValue = 2

\* C9: a component with input components sends round(aggregate * base, 3)
\* when the mode flag is "Correct" and the aggregate itself otherwise, the
\* aggregate being the fold round(aggregate * value, 3) of the values taken
\* in, in the order they were taken in.
C9_AggregatorOutput ==
    input_components # {} =>
        \A i \in 1..Len(emits) :
            emits[i].ComplexValue \in
                IF complex_string = "Correct"
                THEN Rounded(emits[i].reference * complex_value)
                ELSE {emits[i].reference}

\* Both input components reported in epoch 1 and the output was sent, in
\* mode "Correct".
C9_Witness ==
    /\ input_components = {"P1", "P2"}
    /\ complex_string = "Correct"
    /\ Len(emits) = 1
    /\ emits[1].EpochNumber = 1
    /\ emits[1].sent
    /\ Len(emits[1].TriggeringMessageIds) = 2

\* C10 as stated: computing the output value leaves the aggregate as it was,
\* so while the output waits to be sent the aggregate is still the fold of
\* the values taken in.
C10_ComputeOutputPure ==
    sleeping # <<>> => current_number_sum = reference

\* C10, amended: computing the output value leaves the epoch number, the
\* reported components and the triggering message ids as the handler that
\* completed the epoch set them, and stores the output value in the
\* aggregate; computing it again from that state gives the same value.
C10_ComputeOutputStoresValue ==
    /\ [](sleeping # <<>> =>
            /\ current_number_sum \in OutputValues(reference)
            /\ current_number_sum \in OutputValues(current_number_sum))
    /\ [][ Len(sleeping') > Len(sleeping) =>
            IF last'.kind = "epoch"
            THEN /\ latest_epoch' = latest_epoch + 1
                 /\ current_input_components' = {}
                 /\ triggering_message_ids' = <<>>
            ELSE /\ latest_epoch' = latest_epoch
                 /\ current_input_components'
                       = current_input_components
                            \cup {last'.message.source_process_id}
                 /\ triggering_message_ids'
                       = Append(triggering_message_ids, last'.message.message_id)
          ]_vars

\* A component without input components has computed the output of epoch 2
\* and not yet sent it: the aggregate holds the output value, not the neutral
\* value.
C10_Witness ==
    /\ input_components = {}
    /\ latest_epoch = 2
    /\ sleeping # <<>>
    /\ current_number_sum # NeutralSum

\* The last event was an epoch start.
EpochStarted == last.kind = "epoch"

\* C11 as stated: an epoch start leaves no component reported and the
\* aggregate at its neutral value.
C11_ResetYieldsNeutral ==
    [][ last'.kind = "epoch" =>
            /\ current_input_components' = {}
            /\ current_number_sum' = NeutralSum ]_vars

\* C11, amended: an epoch start leaves no component reported, whatever the
\* epoch before left; it leaves the aggregate at its neutral value when there
\* are input components, and at round(base * epoch / 1000, 3) of the new
\* epoch when there are none, because that epoch is processed at once.
C11_ResetIndependentOfPast ==
    [][ last'.kind = "epoch" =>
            /\ current_input_components' = {}
            /\ current_number_sum' \in
                  IF input_components = {}
                  THEN Rounded(complex_value * latest_epoch')
                  ELSE {NeutralSum} ]_vars

\* Epoch 2 of a component with two input components has started after both
\* had reported in epoch 1 and the output of epoch 1 was computed and sent.
C11_Witness ==
    /\ EpochStarted
    /\ latest_epoch = 2
    /\ input_components = {"P1", "P2"}
    /\ 1 \in completed
    /\ current_input_components = {}
    /\ current_number_sum = NeutralSum

\* C12: a call of clear_epoch_variables right after another changes
\* nothing, and no call changes the configuration, the epoch number, the
\* triggering message ids or the suspended calls.
C12_ClearIdempotent ==
    /\ [][ (last'.kind = "clear" /\ last'.again)
              => UNCHANGED <<config, supplied, fields, sleeping>> ]_vars
    /\ [][ last'.kind = "clear" =>
              /\ UNCHANGED <<config, supplied, latest_epoch, triggering_message_ids,
                             sleeping>>
              /\ current_input_components' = {}
              /\ current_number_sum' = NeutralSum ]_vars

\* clear_epoch_variables was called twice in a row in epoch 2, while the
\* process_epoch call of that epoch was in its output delay.
C12_Witness ==
    /\ last.kind = "clear"
    /\ last.again
    /\ latest_epoch = 2
    /\ input_components # {}
    /\ sleeping = <<2>>

\* C13: while the epoch number stays the same, the set of components that
\* have reported only grows, so once every input component has reported this
\* stays so until the next epoch starts.
C13_NoRegression ==
    [][ latest_epoch' = latest_epoch =>
            /\ current_input_components \subseteq current_input_components'
            /\ AllReceived => AllReceived' ]_vars

\* In epoch 2 the only input component has reported and a further message of
\* it has been delivered.
C13_Witness ==
    /\ input_components = {"P1"}
    /\ latest_epoch = 2
    /\ AllReceived
    /\ InputHandled /\ ~last.taken
    /\ last.message.source_process_id = "P1"

\* C14: the triggering message ids, and those of every output message, are
\* the ids of the first message of each input component since the epoch
\* started, in arrival order: every message taken in, none that was ignored,
\* none of an earlier epoch.
C14_CausalIdsOfEpoch ==
    /\ triggering_message_ids = expected_ids
    /\ \A i \in 1..Len(emits) :
          emits[i].TriggeringMessageIds = emits[i].expected_ids

\* The only input component reported in epoch 1 with message 1, message 2 of
\* it was ignored, and in epoch 2 it reported with message 3: the two calls
\* were made with the ids 1 and 3.
C14_Witness ==
    /\ input_components = {"P1"}
    /\ Len(emits) = 2
    /\ emits[1].EpochNumber = 1
    /\ emits[1].TriggeringMessageIds = <<1>>
    /\ emits[2].TriggeringMessageIds = <<3>>

\* C15: when building or sending the output message fails with an exception
\* of message construction or serialization (ValueError, TypeError,
\* MessageError), the exception does not leave process_epoch and
\* send_error_message is called, once; when that call returns, one error
\* message has been sent and process_epoch returns without an exception (the
\* only exception that can leave it is one send_error_message raised itself);
\* no second call of _send_complex_message is made or pending for that epoch;
\* when nothing fails no error message is sent.
C15_OneErrorNoRetry ==
    \A i \in 1..Len(emits) :
        /\ emits[i].failure = "none" =>
              (emits[i].error_messages = 0 /\ emits[i].error_report = "none")
        /\ emits[i].failure = "caught" =>
              /\ ~emits[i].sent
              /\ emits[i].stage \in {"reporting", "ended"}
              /\ emits[i].stage = "reporting" <=> emits[i].error_report = "pending"
              /\ emits[i].stage = "ended" <=> emits[i].error_report \in {"sent", "raised"}
              /\ emits[i].error_messages
                    = (IF emits[i].error_report = "sent" THEN 1 ELSE 0)
              /\ emits[i].returned = "exception" <=> emits[i].error_report = "raised"
              /\ EmitsOf(emits[i].EpochNumber) = {i}
              /\ SleepingFor(emits[i].EpochNumber) = {}

\* Building or sending the output of epoch 1 failed with an exception that
\* is caught, the error message went out, and epoch 2 has started since with
\* nothing pending.
C15_Witness ==
    /\ input_components # {}
    /\ Len(emits) = 1
    /\ emits[1].failure = "caught"
    /\ emits[1].error_report = "sent"
    /\ emits[1].error_messages = 1
    /\ emits[1].EpochNumber = 1
    /\ latest_epoch = 2
    /\ sleeping = <<>>

\* C16: what _send_complex_message sends after the output delay is what
\* process_epoch computed before it: the epoch number, the value and the
\* triggering message ids of the epoch whose completion started it.
C16_EmissionUnaltered ==
    \A i \in 1..Len(emits) :
        /\ emits[i].EpochNumber = emits[i].scheduled_for
        /\ emits[i].EpochNumber = emits[i].computed.EpochNumber
        /\ emits[i].ComplexValue = emits[i].computed.ComplexValue
        /\ emits[i].TriggeringMessageIds = emits[i].computed.TriggeringMessageIds

\* C17: with input components the aggregate is 0 in every state, and so is
\* every value sent, whatever the values received, the mode flag and the base
\* value.
C17_AggregateCollapsesToZero ==
    input_components # {} =>
        /\ current_number_sum = 0
        /\ \A i \in 1..Len(snapshots) : snapshots[i].ComplexValue = 0
        /\ \A i \in 1..Len(emits) : emits[i].ComplexValue = 0

\* Both input components have reported in epoch 1 with the first two messages
\* delivered, and _send_complex_message was called for it with the mode flag
\* not "Correct".
C17_Witness ==
    /\ input_components = {"P1", "P2"}
    /\ complex_string # "Correct"
    /\ latest_epoch = 1
    /\ Len(emits) = 1
    /\ emits[1].EpochNumber = 1
    /\ next_id = 3

\* C18: every process_epoch call finds components reported exactly when
\* there are input components, so it computes the output from the aggregate
\* when there are input components and from base and epoch when there are
\* none.
C18_BranchMatchesPeerSet ==
    /\ \A i \in 1..Len(snapshots) :
          (snapshots[i].reported # {}) <=> (input_components # {})
    /\ \A i \in 1..Len(emits) :
          /\ (emits[i].computed.reported # {}) <=> (input_components # {})
          /\ emits[i].computed.ComplexValue \in
                IF input_components = {}
                THEN Rounded(complex_value * emits[i].computed.EpochNumber)
                ELSE IF complex_string = "Correct"
                     THEN Rounded(emits[i].reference * complex_value)
                     ELSE {emits[i].reference}

\* The only input component has reported in epoch 2 and process_epoch is in
\* its output delay.
C18_Witness ==
    /\ input_components = {"P1"}
    /\ latest_epoch = 2
    /\ Len(snapshots) = 1
    /\ snapshots[1].reported = {"P1"}

\* C19: process_epoch returns True whenever _send_complex_message returns
\* (it does not when an exception that is not caught, or one of
\* send_error_message, leaves it), also when sending failed and only the
\* error message went out, and after a failure no further call is made or
\* pending for that epoch.
C19_ReturnsTrueAlways ==
    \A i \in 1..Len(emits) :
        /\ ( /\ emits[i].stage = "ended"
             /\ emits[i].failure # "other"
             /\ emits[i].error_report # "raised" )
              => emits[i].returned = "True"
        /\ emits[i].failure # "none" =>
              /\ EmitsOf(emits[i].EpochNumber) = {i}
              /\ SleepingFor(emits[i].EpochNumber) = {}

\* The call for epoch 1 failed, its error message went out and it returned
\* True; the call for epoch 2 sent its message.
C19_Witness ==
    /\ Len(emits) = 2
    /\ emits[1].failure = "caught"
    /\ emits[1].error_report = "sent"
    /\ emits[1].returned = "True"
    /\ emits[2].sent
    /\ emits[2].returned = "True"

\* C20: in a component that has its output delay, and with every delay
\* finite, once every input component has had a message delivered in epoch e,
\* whatever else was delivered, epoch e is complete and
\* _send_complex_message is eventually called for it.
C20_EventuallyEmitted ==
    \A e \in 1..MaxEpoch :
        [](( /\ latest_epoch = e
             /\ has_output_delay
             /\ input_components # {}
             /\ input_components \subseteq delivered )
            => <>(e \in completed /\ EmitsOf(e) # {}))

\* _send_complex_message has just been called for epoch 1 of a component with
\* two input components, after four messages were delivered.
C20_Witness ==
    /\ input_components = {"P1", "P2"}
    /\ latest_epoch = 1
    /\ EmitsOf(1) # {}
    /\ next_id = 5
    /\ last.kind = "send"

====
